---- MODULE Spec2Model ----
(***************************************************************************)
(* The icon-container decoder of src/src/main.rs (extract_ico): header and *)
(* directory parsing, selection of the best entry, classification of the   *)
(* blob, the 32-bit and 8-bit legacy raster decoders and the output file.  *)
(*                                                                         *)
(* Files and blobs are sequences of bytes.  u32 and usize quantities are   *)
(* kept as little-endian sequences of eight base-256 limbs (a Word), since *)
(* 2^32 and the products the code forms exceed the integers of TLC.        *)
(***************************************************************************)
EXTENDS Integers, Sequences, FiniteSets, TLC

VARIABLES pc, file, cursor, entries, best, blob, fs, fs0, result, image,
          out_path, pool, runsLeft

vars == <<pc, file, cursor, entries, best, blob, fs, fs0, result, image,
          out_path, pool, runsLeft>>

(***************************************************************************)
(* Bounds of the model.                                                    *)
(***************************************************************************)
MaxEntries == 3
MaxDim == 2
MaxRuns == 2

(***************************************************************************)
(* Words: exact naturals below 2^64 as eight little-endian limbs.          *)
(***************************************************************************)
RECURSIVE NatToLimbs(_, _)
NatToLimbs(n, k) ==
    IF k = 0 THEN <<>> ELSE <<n % 256>> \o NatToLimbs(n \div 256, k - 1)

W(n) == NatToLimbs(n, 8)

Zeros(k) == [i \in 1..k |-> 0]

\* the value of a Word below 2^24, as an ordinary integer
WNat(a) == a[1] + 256 * a[2] + 65536 * a[3]

RECURSIVE AddFrom(_, _, _, _)
AddFrom(a, b, i, c) ==
    IF i > Len(a) THEN <<>>
    ELSE LET s == a[i] + b[i] + c
         IN  <<s % 256>> \o AddFrom(a, b, i + 1, s \div 256)

\* a + b, both Words; the sums the code forms in usize stay below 2^64
WAdd(a, b) == AddFrom(a, b, 1, 0)

RECURSIVE MulLimbFrom(_, _, _, _)
MulLimbFrom(a, d, i, c) ==
    IF i > Len(a) THEN <<>>
    ELSE LET s == a[i] * d + c
         IN  <<s % 256>> \o MulLimbFrom(a, d, i + 1, s \div 256)

RECURSIVE MulFrom(_, _, _)
MulFrom(a, b, j) ==
    IF j > Len(b) THEN Zeros(Len(a))
    ELSE IF b[j] = 0 THEN MulFrom(a, b, j + 1)
    ELSE LET shifted == SubSeq(Zeros(j - 1) \o a, 1, Len(a))
         IN  AddFrom(MulLimbFrom(shifted, b[j], 1, 0), MulFrom(a, b, j + 1), 1, 0)

\* a * b, exact for factors below 2^32
WMul(a, b) == MulFrom(a, b, 1)

RECURSIVE LessFrom(_, _, _)
LessFrom(a, b, i) ==
    IF i = 0 THEN FALSE
    ELSE IF a[i] # b[i] THEN a[i] < b[i]
    ELSE LessFrom(a, b, i - 1)

WLess(a, b) == LessFrom(a, b, Len(a))
WLeq(a, b) == ~WLess(b, a)

RECURSIVE DivFrom(_, _, _, _)
DivFrom(a, d, i, r) ==
    IF i = 0 THEN <<>>
    ELSE LET cur == r * 256 + a[i]
         IN  DivFrom(a, d, i - 1, cur % d) \o <<cur \div d>>

\* a div d for a small divisor d
WDiv(a, d) == DivFrom(a, d, Len(a), 0)

RECURSIVE ModFrom(_, _, _, _)
ModFrom(a, d, i, r) ==
    IF i = 0 THEN r ELSE ModFrom(a, d, i - 1, (r * 256 + a[i]) % d)

WMod(a, d) == ModFrom(a, d, Len(a), 0)

WZero == Zeros(8)

\* a - 1 for a # 0
RECURSIVE DecFrom(_, _)
DecFrom(a, i) ==
    IF i > Len(a) THEN <<>>
    ELSE IF a[i] = 0 THEN <<255>> \o DecFrom(a, i + 1)
    ELSE <<a[i] - 1>> \o SubSeq(a, i + 1, Len(a))

WDec(a) == DecFrom(a, 1)

\* the low 32 bits of a Word, and whether anything was cut off
Low32(a) == SubSeq(a, 1, 4) \o Zeros(4)
Fits32(a) == \A i \in 5..8 : a[i] = 0


(***************************************************************************)
(* Fixed-offset little-endian field extraction; o is the 0-based offset.   *)
(***************************************************************************)
U16At(b, o) == b[o + 1] + 256 * b[o + 2]
U32At(b, o) == <<b[o + 1], b[o + 2], b[o + 3], b[o + 4]>> \o Zeros(4)
\* an i32 field is <= 0: sign bit set, or all bytes zero
I32NonPositive(b, o) == b[o + 4] >= 128 \/ U32At(b, o) = WZero
\* big-endian u32, as the PNG container stores its dimensions
U32BEAt(b, o) == <<b[o + 4], b[o + 3], b[o + 2], b[o + 1]>> \o Zeros(4)

HeaderLen == 6
RecordLen == 16
DibHeaderLen == 40
FullPalette == 256
Zero256 == 256

PNG_SIG == <<137, 80, 78, 71, 13, 10, 26, 10>>

None == <<>>
Some(x) == <<x>>

Ok == [status |-> "ok", msg |-> ""]
Err(m) == [status |-> "err", msg |-> m]
Panic(m) == [status |-> "panic", msg |-> m]
Running == [status |-> "running", msg |-> ""]

(***************************************************************************)
(* Directory records (lines 174-184).                                      *)
(***************************************************************************)
ParseEntry(dir, i) ==
    LET o == i * RecordLen
    IN  [width |-> dir[o + 1],
         height |-> dir[o + 2],
         bitcount |-> U16At(dir, o + 6),
         bytes_in_res |-> U32At(dir, o + 8),
         image_offset |-> U32At(dir, o + 12)]

ParseEntries(dir, count) == [i \in 1..count |-> ParseEntry(dir, i - 1)]

(***************************************************************************)
(* Selection of the best entry (lines 185-204).                            *)
(***************************************************************************)
Decl(v) == IF v = 0 THEN Zero256 ELSE v

EntryKey(e) == <<Decl(e.width) * Decl(e.height), e.bitcount, e.bytes_in_res>>

\* a comparison that also replaces the best entry on an equal key
KeyGreaterOrEqual(k1, k2) ==
    \/ k1[1] > k2[1]
    \/ k1[1] = k2[1] /\ k1[2] > k2[2]
    \/ k1[1] = k2[1] /\ k1[2] = k2[2] /\ WLeq(k2[3], k1[3])

\* Rust's tuple ordering: k1 > k2
KeyGreater(k1, k2) ==
    \/ k1[1] > k2[1]
    \/ k1[1] = k2[1] /\ k1[2] > k2[2]
    \/ k1[1] = k2[1] /\ k1[2] = k2[2] /\ WLess(k2[3], k1[3])

InitialBestKey == <<0, 0, WZero>>

RECURSIVE SelectFrom(_, _, _, _)
SelectFrom(es, i, b, best_key) ==
    IF i > Len(es) THEN b
    ELSE IF KeyGreater(EntryKey(es[i]), best_key)
         THEN SelectFrom(es, i + 1, Some(es[i]), EntryKey(es[i]))
         ELSE SelectFrom(es, i + 1, b, best_key)

\* a selection that passes over entries of byte length 0
NonEmptyEntry(e) == e.bytes_in_res # WZero
SelectBestNonEmpty(es) == SelectFrom(SelectSeq(es, NonEmptyEntry), 1, None, InitialBestKey)

SelectBest(es) == SelectFrom(es, 1, None, InitialBestKey)

(***************************************************************************)
(* Output file name, format!("{}x{}.png", w, h) (lines 223, 268, 322).     *)
(***************************************************************************)
Digit(d) == <<"0", "1", "2", "3", "4", "5", "6", "7", "8", "9">>[d + 1]

RECURSIVE Decimal(_)
Decimal(a) ==
    IF WLess(a, W(10)) THEN <<Digit(a[1])>>
    ELSE Decimal(WDiv(a, 10)) \o <<Digit(WMod(a, 10))>>

FileName(w, h) == Decimal(w) \o <<"x">> \o Decimal(h) \o <<".png">>

(***************************************************************************)
(* u32 arithmetic of the build: with overflow checks (checked) an overflow *)
(* panics, without them the result wraps modulo 2^32.                      *)
(***************************************************************************)
Mul32(a, b) == [val |-> Low32(WMul(a, b)), ovf |-> ~Fits32(WMul(a, b))]
Add32(a, b) == [val |-> Low32(WAdd(a, b)), ovf |-> ~Fits32(WAdd(a, b))]

Image(w, h, px) == [w |-> w, h |-> h, px |-> px]
Decoded(img) == [kind |-> "image", msg |-> "", img |-> img]
Failed(m) == [kind |-> "err", msg |-> m, img |-> None]
Panicked(m) == [kind |-> "panic", msg |-> m, img |-> None]

\* blob[from .. from + n), both 0-based and small
Slice(b, from, n) == SubSeq(b, from + 1, from + n)

\* number of pixels the loops visit; one side may be huge when the other is 0
PixelCount(w, h) == IF w = WZero \/ h = WZero THEN 0 ELSE WNat(w) * WNat(h)

(***************************************************************************)
(* PNG path (lines 218-229): the general image decoder is an external      *)
(* collaborator; it is modelled by the dimensions of the IHDR chunk and    *)
(* the remaining bytes as the opaque pixel content.                        *)
(***************************************************************************)
IHDR == <<73, 72, 68, 82>>
PngDimsOffset == 16
PngMinLen == 24

load_from_memory(b) ==
    IF Len(b) < PngMinLen \/ Slice(b, 12, 4) # IHDR
       \/ U32BEAt(b, PngDimsOffset) = WZero \/ U32BEAt(b, PngDimsOffset + 4) = WZero
    THEN Failed("decode PNG")
    ELSE Decoded(Image(U32BEAt(b, PngDimsOffset), U32BEAt(b, PngDimsOffset + 4),
                       <<"png", Slice(b, PngMinLen, Len(b) - PngMinLen)>>))

IsPng(b) == Len(b) >= 8 /\ SubSeq(b, 1, 8) = PNG_SIG

(***************************************************************************)
(* 32-bit path (lines 250-274).                                            *)
(***************************************************************************)
\* rows read top-down
Pixel32TopDown(data, w, h, x, y) ==
    LET i == (y * w + x) * 4
    IN  <<data[i + 3], data[i + 2], data[i + 1], data[i + 4]>>

Pixel32(data, w, h, x, y) ==
    LET src_row == h - 1 - y
        i == (src_row * w + x) * 4
    IN  <<data[i + 3], data[i + 2], data[i + 1], data[i + 4]>>

Decode32(b, header_size, dib_w, dib_h, checked) ==
    LET area == Mul32(dib_w, dib_h)
        expected == WMul(area.val, W(4))
    IN  IF checked /\ area.ovf THEN Panicked("attempt to multiply with overflow")
        ELSE IF WLess(W(Len(b)), WAdd(header_size, expected))
        THEN Failed("Truncated 32bpp data")
        ELSE IF dib_w # WZero /\ dib_h # WZero
                /\ WLess(expected, WMul(WMul(dib_w, dib_h), W(4)))
        THEN Panicked("index out of bounds")
        ELSE LET data == Slice(b, WNat(header_size), WNat(expected))
                 n == PixelCount(dib_w, dib_h)
                 w == WNat(dib_w)
                 h == WNat(dib_h)
             IN  Decoded(Image(dib_w, dib_h,
                    [k \in 1..n |-> Pixel32(data, w, h, (k - 1) % w, (k - 1) \div w)]))

(***************************************************************************)
(* 8-bit indexed path (lines 275-328).                                     *)
(***************************************************************************)
Min(a, b) == IF a < b THEN a ELSE b

Pixel8(pixels, palette, palette_len, row_stride, h, x, y) ==
    LET src_row == h - 1 - y
        row_start == src_row * row_stride
        idx8 == pixels[row_start + x + 1]
        base == Min(idx8, palette_len - 1) * 4
    IN  <<palette[base + 3], palette[base + 2], palette[base + 1], 255>>

\* mask bits counted from the least significant bit
MaskBitSetLsbFirst(mask_bytes, mask_stride, h, x, y) ==
    LET src_row == h - 1 - y
        row_off == src_row * mask_stride
        byte_index == row_off + (x \div 8)
        bit == x % 8
    IN  /\ byte_index < Len(mask_bytes)
        /\ (mask_bytes[byte_index + 1] \div (2 ^ bit)) % 2 = 1

MaskBitSet(mask_bytes, mask_stride, h, x, y) ==
    LET src_row == h - 1 - y
        row_off == src_row * mask_stride
        byte_index == row_off + (x \div 8)
        bit == 7 - (x % 8)
    IN  /\ byte_index < Len(mask_bytes)
        /\ (mask_bytes[byte_index + 1] \div (2 ^ bit)) % 2 = 1

ApplyMask(p, mask, mask_stride, h, x, y) ==
    IF mask # None /\ MaskBitSet(mask[1], mask_stride, h, x, y)
    THEN <<p[1], p[2], p[3], 0>>
    ELSE p

Decode8(b, header_size, dib_w, dib_h, clr_used, checked) ==
    LET len == W(Len(b))
        palette_len == IF clr_used # WZero THEN clr_used ELSE W(FullPalette)
        palette_bytes == WMul(palette_len, W(4))
        bits == Mul32(dib_w, W(8))
        bits31 == Add32(bits.val, W(31))
        row_stride == WMul(WDiv(bits31.val, 32), W(4))
        pas == Mul32(row_stride, dib_h)
        pixel_array_size == pas.val
        pixel_offset == WAdd(header_size, palette_bytes)
        w31 == Add32(dib_w, W(31))
        mask_stride == WMul(WDiv(w31.val, 32), W(4))
        mask_offset == WAdd(pixel_offset, pixel_array_size)
        mask_size == Mul32(mask_stride, dib_h)
        has_mask == WLeq(WAdd(mask_offset, mask_size.val), len)
        last == WAdd(WMul(WDec(dib_h), row_stride), dib_w)
    IN  IF WLess(len, WAdd(header_size, palette_bytes))
        THEN Failed("Truncated palette")
        ELSE IF checked /\ (bits.ovf \/ bits31.ovf \/ pas.ovf)
        THEN Panicked("attempt to multiply with overflow")
        ELSE IF WLess(len, WAdd(pixel_offset, pixel_array_size))
        THEN Failed("Truncated pixel array")
        ELSE IF checked /\ (w31.ovf \/ mask_size.ovf)
        THEN Panicked("attempt to add with overflow")
        ELSE IF dib_w # WZero /\ dib_h # WZero /\ WLess(pixel_array_size, last)
        THEN Panicked("index out of bounds")
        ELSE LET palette == Slice(b, WNat(header_size), WNat(palette_bytes))
                 pixels == Slice(b, WNat(pixel_offset), WNat(pixel_array_size))
                 mask == IF has_mask
                         THEN Some(Slice(b, WNat(mask_offset), WNat(mask_size.val)))
                         ELSE None
                 n == PixelCount(dib_w, dib_h)
                 w == WNat(dib_w)
                 h == WNat(dib_h)
                 rs == WNat(row_stride)
                 ms == WNat(mask_stride)
             IN  Decoded(Image(dib_w, dib_h,
                    [k \in 1..n |->
                        LET x == (k - 1) % w
                            y == (k - 1) \div w
                        IN  ApplyMask(Pixel8(pixels, palette, WNat(palette_len), rs, h, x, y),
                                      mask, ms, h, x, y)]))

(***************************************************************************)
(* Classification and legacy header validation (lines 217-250, 329).       *)
(***************************************************************************)
\* the combined height taken as the height of the colour raster
TrueHeightFull(dib_h_total) == dib_h_total

\* line 243: the combined height covers the colour raster and the mask
TrueHeight(dib_h_total) == WDiv(dib_h_total, 2)

\* the compression check moved in front of the height check
DecodeDibCompressionFirst(b, checked) ==
    IF Len(b) < DibHeaderLen THEN Failed("Unsupported blob format")
    ELSE LET header_size == U32At(b, 0)
             dib_w == U32At(b, 4)
             dib_h == TrueHeight(U32At(b, 8))
             bpp == U16At(b, 14)
             compression == U32At(b, 16)
             clr_used == U32At(b, 32)
         IN  IF WLess(header_size, W(DibHeaderLen)) THEN Failed("Unsupported DIB header")
             ELSE IF compression # WZero THEN Failed("Compressed DIB unsupported")
             ELSE IF I32NonPositive(b, 8) THEN Failed("Invalid DIB height")
             ELSE IF bpp = 32 THEN Decode32(b, header_size, dib_w, dib_h, checked)
             ELSE IF bpp = 8 THEN Decode8(b, header_size, dib_w, dib_h, clr_used, checked)
             ELSE Failed("Unsupported DIB bpp")

DecodeDib(b, checked) ==
    IF Len(b) < DibHeaderLen THEN Failed("Unsupported blob format")
    ELSE LET header_size == U32At(b, 0)
             dib_w == U32At(b, 4)
             dib_h == TrueHeight(U32At(b, 8))
             bpp == U16At(b, 14)
             compression == U32At(b, 16)
             clr_used == U32At(b, 32)
         IN  IF WLess(header_size, W(DibHeaderLen)) THEN Failed("Unsupported DIB header")
             ELSE IF I32NonPositive(b, 8) THEN Failed("Invalid DIB height")
             ELSE IF compression # WZero THEN Failed("Compressed DIB unsupported")
             ELSE IF bpp = 32 THEN Decode32(b, header_size, dib_w, dib_h, checked)
             ELSE IF bpp = 8 THEN Decode8(b, header_size, dib_w, dib_h, clr_used, checked)
             ELSE Failed("Unsupported DIB bpp")

DecodeBlob(b, checked) ==
    IF IsPng(b) THEN load_from_memory(b) ELSE DecodeDib(b, checked)

(***************************************************************************)
(* Input containers: byte-exact files built from bounded field values.     *)
(***************************************************************************)
LE16(n) == <<n % 256, n \div 256>>
LE32(a) == SubSeq(a, 1, 4)

AllOnes32 == <<255, 255, 255, 255, 0, 0, 0, 0>>
MinusTwo32 == <<254, 255, 255, 255, 0, 0, 0, 0>>

\* n bytes, pairwise different for n < 36
Pat(n, seed) == [i \in 1..n |-> (seed + 7 * i) % 256]

IcoHeader(reserved, type, count) == LE16(reserved) \o LE16(type) \o LE16(count)

DirRecord(w, h, bitcount, bytes, offset) ==
    <<w, h, 0, 0>> \o LE16(1) \o LE16(bitcount) \o LE32(bytes) \o LE32(offset)

DibHeader(size, w, h_total, bpp, compression, clr_used) ==
    LE32(size) \o LE32(w) \o LE32(h_total) \o LE16(1) \o LE16(bpp)
        \o LE32(compression) \o Zeros(12) \o LE32(clr_used) \o Zeros(4)

PngBlob(w, h, tail) ==
    PNG_SIG \o <<0, 0, 0, 13>> \o IHDR
        \o <<0, 0, w \div 256, w % 256>> \o <<0, 0, h \div 256, h % 256>> \o tail

\* a container of one entry whose blob follows the directory
OneEntry(wb, hb, bitcount, b) ==
    IcoHeader(0, 1, 1)
        \o DirRecord(wb, hb, bitcount, W(Len(b)), W(HeaderLen + RecordLen)) \o b

DeclByte(n) == n % 256

\* --- header and directory ---
TinyDib32 == DibHeader(W(DibHeaderLen), W(1), W(2), 32, WZero, WZero) \o Pat(4, 1)

HeaderInputs ==
    {<<>>, <<0, 0, 1>>, IcoHeader(0, 1, 1), IcoHeader(0, 1, 2) \o Zeros(RecordLen)}
    \cup {IcoHeader(r, t, c) \o DirRecord(1, 1, 32, W(Len(TinyDib32)), W(HeaderLen + RecordLen))
              \o TinyDib32 : r \in {0, 1, 256}, t \in {0, 1, 2}, c \in {0, 1}}

\* --- selection ---
BlobBase == HeaderLen + RecordLen * MaxEntries
PngBig == PngBlob(256, 256, <<7, 9>>)
OffA == W(BlobBase)
OffP == W(BlobBase + Len(TinyDib32))
Payload == TinyDib32 \o PngBig \o Zeros(Len(TinyDib32) - Len(PngBig))

Candidates ==
    { DirRecord(0, 0, 32, W(Len(PngBig)), OffP),
      DirRecord(0, 0, 32, W(Len(PngBig)), OffA),
      DirRecord(0, 0, 8, W(Len(PngBig)), OffP),
      DirRecord(0, 0, 32, W(PngMinLen), OffP),
      DirRecord(255, 255, 32, W(Len(TinyDib32)), OffA),
      DirRecord(0, 1, 0, WZero, OffA) }

RECURSIVE Flatten(_)
Flatten(ss) == IF ss = <<>> THEN <<>> ELSE Head(ss) \o Flatten(Tail(ss))

Directories == UNION {[1..n -> Candidates] : n \in 0..MaxEntries}

SelectionInputs ==
    { IcoHeader(0, 1, Len(d)) \o Flatten(d)
          \o Zeros(RecordLen * (MaxEntries - Len(d))) \o Payload : d \in Directories }

\* --- legacy header validation ---
HeaderOrderInputs ==
    { OneEntry(1, 1, bpp, DibHeader(hs, W(1), ht, bpp, W(c), W(1)) \o Pat(n, 1)) :
          hs \in {W(12), W(DibHeaderLen)}, ht \in {MinusTwo32, WZero, W(2)},
          c \in {0, 1}, bpp \in {1, 8, 24, 32}, n \in {0, 12} }

\* --- 32-bit rasters ---
Dib32Blob(hs, w, ht, seed, cut) ==
    LET body == Pat((hs - DibHeaderLen) + w * (ht \div 2) * 4, seed)
        full == DibHeader(W(hs), W(w), W(ht), 32, WZero, WZero) \o body
    IN  SubSeq(full, 1, Len(full) - cut)

Dib32Inputs ==
    { OneEntry(IF honest THEN DeclByte(w) ELSE 0, IF honest THEN DeclByte(ht \div 2) ELSE 0,
               32, Dib32Blob(hs, w, ht, seed, cut)) :
          hs \in {DibHeaderLen, DibHeaderLen + 4}, w \in 0..MaxDim,
          ht \in 1..(2 * MaxDim + 1), seed \in {1, 100}, cut \in {0, 1},
          honest \in BOOLEAN }

\* --- 8-bit rasters ---
WideWidths == {9, 33}
Stride8(w) == ((w * 8 + 31) \div 32) * 4
Stride1(w) == ((w + 31) \div 32) * 4
MaskPatterns == {0, 128, 85, 255}
Cuts == {"none", "mask short", "no mask", "pixels short", "palette short"}

Dib8Blob(w, h, clr, hi, m, cut) ==
    LET n == IF clr = 0 THEN FullPalette ELSE clr
        palette == Pat(4 * n, 3)
        pixels == [i \in 1..(Stride8(w) * h) |-> IF hi THEN 255 - (i % 2) ELSE i % 3]
        mask == [i \in 1..(Stride1(w) * h) |-> (i * m) % 256]
        head == DibHeader(W(DibHeaderLen), W(w), W(2 * h), 8, WZero, W(clr))
    IN  CASE cut = "none" -> head \o palette \o pixels \o mask
          [] cut = "mask short" -> head \o palette \o pixels \o SubSeq(mask, 1, Len(mask) - 1)
          [] cut = "no mask" -> head \o palette \o pixels
          [] cut = "pixels short" -> head \o palette \o SubSeq(pixels, 1, Len(pixels) - 1)
          [] cut = "palette short" -> head \o SubSeq(palette, 1, Len(palette) - 1)

Dib8Inputs ==
    { OneEntry(DeclByte(w), DeclByte(h), 8, Dib8Blob(w, h, clr, hi, m, "none")) :
          w \in (1..MaxDim) \cup WideWidths, h \in 1..MaxDim, clr \in {0, 1, 2},
          hi \in BOOLEAN, m \in MaskPatterns }
    \cup { OneEntry(DeclByte(w), DeclByte(h), 8, Dib8Blob(w, h, clr, FALSE, 255, cut)) :
          w \in (1..MaxDim) \cup WideWidths, h \in 1..MaxDim, clr \in {1, 2},
          cut \in Cuts }

\* --- header values at the edge of 32-bit arithmetic ---
EdgeHeaders ==
    { <<W(DibHeaderLen), W(65536), W(131072), 32, WZero>>,
      <<W(DibHeaderLen), AllOnes32, W(2), 32, WZero>>,
      <<W(DibHeaderLen), AllOnes32, W(1), 32, WZero>>,
      <<AllOnes32, W(1), W(2), 32, WZero>>,
      <<W(DibHeaderLen), W(536870912), W(2), 8, W(1)>>,
      <<W(DibHeaderLen), AllOnes32, W(2), 8, W(1)>>,
      <<W(DibHeaderLen), W(8), W(1073741824), 8, W(1)>>,
      <<W(DibHeaderLen), W(3), W(2147483647), 8, W(1)>>,
      <<W(DibHeaderLen), W(1), W(2), 8, AllOnes32>>,
      <<W(DibHeaderLen), W(1), W(2), 8, W(257)>>,
      <<W(DibHeaderLen), W(0), W(2147483647), 8, W(1)>> }

EdgeInputs ==
    { OneEntry(0, 0, h[4], DibHeader(h[1], h[2], h[3], h[4], WZero, h[5]) \o Pat(n, 5)) :
          h \in EdgeHeaders, n \in {0, 4, 12, 1040} }

\* --- embedded PNG ---
PngInputs ==
    { OneEntry(wb, hb, 32, PngBlob(w, h, <<t>>)) :
          wb \in {0, 1}, hb \in {0, 1}, w \in {0, 1, 256}, h \in {1, 256}, t \in {7, 9} }
    \cup { OneEntry(0, 0, 32, PNG_SIG), OneEntry(0, 0, 32, PNG_SIG \o Zeros(40)) }

AllInputs ==
    HeaderInputs \cup SelectionInputs \cup HeaderOrderInputs \cup Dib32Inputs
        \cup Dib8Inputs \cup EdgeInputs \cup PngInputs

RerunInputs ==
    { OneEntry(1, 1, 32, Dib32Blob(DibHeaderLen, 1, 2, seed, 0)) : seed \in {1, 100} }
    \cup { OneEntry(1, 1, 8, Dib8Blob(1, 1, 1, FALSE, m, "none")) : m \in {0, 255} }
    \cup { OneEntry(0, 0, 32, PngBig), IcoHeader(1, 1, 0) }

Inputs(p) == IF p = "all" THEN AllInputs ELSE RerunInputs

(***************************************************************************)
(* The destination: absent, a regular file, or a directory with files.     *)
(***************************************************************************)
NoFiles == [n \in {} |-> None]
FsStates == {[out |-> o, files |-> NoFiles] : o \in {"absent", "file", "dir"}}

\* rgba.save(&out_path): creates or replaces the file of that name
SaveFile(files, name, img) == [n \in DOMAIN files \cup {name} |->
                                  IF n = name THEN img ELSE files[n]]

\* ensure_dir (lines 47-52)
ensure_dir(f) ==
    IF f.out = "file" THEN [ok |-> FALSE, fs |-> f]
    ELSE [ok |-> TRUE, fs |-> [f EXCEPT !.out = "dir"]]

(***************************************************************************)
(* extract_ico, one action per stage of the function.                      *)
(***************************************************************************)
TypeOK ==
    /\ pc \in {"idle", "header", "directory", "select", "blob", "ensure_dir",
               "decode", "done"}
    /\ result.status \in {"running", "ok", "err", "panic"}
    /\ fs.out \in {"absent", "file", "dir"}
    /\ Len(best) <= 1 /\ Len(image) <= 1
    /\ runsLeft \in 0..MaxRuns

Fail(m) == /\ pc' = "done"
           /\ result' = Err(m)

\* a new invocation on the container f (line 162)
Start(f) ==
    /\ pc \in {"idle", "done"}
    /\ runsLeft > 0
    /\ pc' = "header"
    /\ file' = f
    /\ cursor' = WZero
    /\ entries' = <<>>
    /\ best' = None
    /\ blob' = <<>>
    /\ fs0' = fs
    /\ result' = Running
    /\ image' = None
    /\ out_path' = None
    /\ runsLeft' = runsLeft - 1
    /\ UNCHANGED <<fs, pool>>

\* a header check that reads the reserved and type fields as single bytes
CheckHeaderLowByte(header) ==
    IF header[1] # 0 THEN "Invalid ICO reserved"
    ELSE IF header[3] # 1 THEN "Not ICO"
    ELSE ""

\* lines 165-170: the message of the failing check, "" when the header is accepted
CheckHeader(header) ==
    IF U16At(header, 0) # 0 THEN "Invalid ICO reserved"
    ELSE IF U16At(header, 2) # 1 THEN "Not ICO"
    ELSE ""

\* lines 163-170
ReadHeader ==
    /\ pc = "header"
    /\ IF Len(file) < HeaderLen
       THEN Fail("failed to fill whole buffer") /\ cursor' = W(Len(file))
       ELSE /\ cursor' = W(HeaderLen)
            /\ IF CheckHeader(Slice(file, 0, HeaderLen)) # ""
               THEN Fail(CheckHeader(Slice(file, 0, HeaderLen)))
               ELSE pc' = "directory" /\ UNCHANGED result
    /\ UNCHANGED <<file, entries, best, blob, fs, fs0, image, out_path, pool, runsLeft>>

\* lines 171-184
ReadDirectory ==
    /\ pc = "directory"
    /\ LET count == U16At(file, 4)
       IN  IF Len(file) < HeaderLen + RecordLen * count
           THEN Fail("failed to fill whole buffer")
                /\ cursor' = W(Len(file)) /\ UNCHANGED entries
           ELSE /\ entries' = ParseEntries(Slice(file, HeaderLen, RecordLen * count), count)
                /\ cursor' = W(HeaderLen + RecordLen * count)
                /\ pc' = "select"
                /\ UNCHANGED result
    /\ UNCHANGED <<file, best, blob, fs, fs0, image, out_path, pool, runsLeft>>

\* lines 185-204
Select ==
    /\ pc = "select"
    /\ best' = SelectBest(entries)
    /\ IF best' = None THEN Fail("No entries")
       ELSE pc' = "blob" /\ UNCHANGED result
    /\ UNCHANGED <<file, cursor, entries, blob, fs, fs0, image, out_path, pool, runsLeft>>

\* lines 213-215
ReadBlob ==
    /\ pc = "blob"
    /\ LET e == best[1]
           end == WAdd(e.image_offset, e.bytes_in_res)
       IN  IF WLess(W(Len(file)), end)
           THEN Fail("failed to fill whole buffer")
                /\ cursor' = IF WLess(W(Len(file)), e.image_offset)
                             THEN e.image_offset ELSE W(Len(file))
                /\ UNCHANGED blob
           ELSE /\ blob' = Slice(file, WNat(e.image_offset), WNat(e.bytes_in_res))
                /\ cursor' = end
                /\ pc' = "ensure_dir"
                /\ UNCHANGED result
    /\ UNCHANGED <<file, entries, best, fs, fs0, image, out_path, pool, runsLeft>>

\* line 216
EnsureDir ==
    /\ pc = "ensure_dir"
    /\ LET r == ensure_dir(fs)
       IN  /\ fs' = r.fs
           /\ IF r.ok THEN pc' = "decode" /\ UNCHANGED result
              ELSE Fail("exists and is not dir")
    /\ UNCHANGED <<file, cursor, entries, best, blob, fs0, image, out_path, pool, runsLeft>>

\* lines 217-329: classify, decode and save; checked is the build's overflow
\* checking, io_error the outcome of the external image writer
Decode ==
    /\ pc = "decode"
    /\ \E checked \in BOOLEAN :
         LET d == DecodeBlob(blob, checked)
         IN  /\ pc' = "done"
             /\ IF d.kind = "image"
                THEN /\ image' = Some(d.img)
                     /\ out_path' = Some(FileName(d.img.w, d.img.h))
                     /\ \E io_error \in BOOLEAN :
                        IF io_error
                        THEN /\ result' = Err("save")
                             /\ UNCHANGED fs
                        ELSE /\ fs' = [fs EXCEPT !.files =
                                          SaveFile(fs.files, FileName(d.img.w, d.img.h), d.img)]
                             /\ result' = Ok
                ELSE /\ result' = IF d.kind = "panic" THEN Panic(d.msg) ELSE Err(d.msg)
                     /\ UNCHANGED <<fs, image, out_path>>
    /\ UNCHANGED <<file, cursor, entries, best, blob, fs0, pool, runsLeft>>

Next ==
    \/ \E f \in Inputs(pool) : Start(f)
    \/ ReadHeader
    \/ ReadDirectory
    \/ Select
    \/ ReadBlob
    \/ EnsureDir
    \/ Decode

InitCommon ==
    /\ pc = "idle"
    /\ file = <<>>
    /\ cursor = WZero
    /\ entries = <<>>
    /\ best = None
    /\ blob = <<>>
    /\ fs \in FsStates
    /\ fs0 = fs
    /\ result = Running
    /\ image = None
    /\ out_path = None

\* one invocation on any container
Init == InitCommon /\ pool = "all" /\ runsLeft = 1

\* a sequence of invocations into the same destination
InitRuns == InitCommon /\ pool = "rerun" /\ runsLeft = MaxRuns

Spec == Init /\ [][Next]_vars
SpecRuns == InitRuns /\ [][Next]_vars

(***************************************************************************)
(* Properties.                                                             *)
(***************************************************************************)
Selected == pc \in {"blob", "ensure_dir", "decode", "done"} /\ entries # <<>>

\* the ranking key as the contract words it: area with 0 read as 256, then
\* bit depth, then byte length
Dim256(v) == IF v = 0 THEN 256 ELSE v
RankKey(e) == <<Dim256(e.width) * Dim256(e.height), e.bitcount, WNat(e.bytes_in_res)>>
RankLess(a, b) ==
    \/ a[1] < b[1]
    \/ a[1] = b[1] /\ a[2] < b[2]
    \/ a[1] = b[1] /\ a[2] = b[2] /\ a[3] < b[3]

\* C1: for every non-empty directory the selected entry has the
\* lexicographically greatest key (area with 0 as 256, bit depth, byte
\* length), and among the entries with that key it is the first in
\* directory order.
C1_SelectsFirstMaximum ==
    Selected =>
        /\ best # None
        /\ \E i \in 1..Len(entries) :
             /\ best[1] = entries[i]
             /\ \A j \in 1..Len(entries) : ~RankLess(RankKey(entries[i]), RankKey(entries[j]))
             /\ \A j \in 1..(i - 1) : RankKey(entries[j]) # RankKey(entries[i])

\* two different entries tie for the maximum and the earlier one is chosen
C1_Witness ==
    /\ pc = "done"
    /\ Len(entries) >= 2
    /\ \E i \in 1..Len(entries), j \in 1..Len(entries) :
         /\ i < j
         /\ entries[i] # entries[j]
         /\ RankKey(entries[i]) = RankKey(entries[j])
         /\ \A k \in 1..Len(entries) : ~RankLess(RankKey(entries[i]), RankKey(entries[k]))
         /\ best = <<entries[i]>>

HeaderRead == pc \notin {"idle", "header"} /\ Len(file) >= 6
BadHeader == file[1] # 0 \/ file[2] # 0 \/ file[3] # 1 \/ file[4] # 0

\* C7: a header with reserved # 0 or type # 1 is rejected with a format
\* error right after the six header bytes: no directory record and no blob
\* is read, and the destination is left as it was (no directory, no file).
C7_BadHeaderRejected ==
    (HeaderRead /\ BadHeader) =>
        /\ pc = "done"
        /\ result \in {Err("Invalid ICO reserved"), Err("Not ICO")}
        /\ cursor = W(6)
        /\ entries = <<>> /\ best = None /\ blob = <<>>
        /\ fs = fs0
        /\ image = None /\ out_path = None

\* reserved = 1 with an absent destination: rejected, destination still absent
C7_Witness ==
    /\ pc = "done"
    /\ Len(file) >= 6 /\ file[1] = 1 /\ file[2] = 0
    /\ result = Err("Invalid ICO reserved")
    /\ fs0.out = "absent" /\ fs.out = "absent"

DirectoryRead ==
    /\ HeaderRead /\ ~BadHeader
    /\ pc # "directory"
    /\ Len(file) >= 6 + 16 * (file[5] + 256 * file[6])

\* C8: selection fails with the empty-directory error exactly when the
\* directory has zero entries; then nothing is written.  Every directory
\* with at least one entry yields a selected entry, whatever its fields.
C8_EmptyDirectoryOnly ==
    /\ (DirectoryRead /\ pc # "select") =>
          /\ (result = Err("No entries")) <=> (file[5] = 0 /\ file[6] = 0)
          /\ (file[5] = 0 /\ file[6] = 0) => (pc = "done" /\ best = None /\ fs = fs0)
          /\ (file[5] # 0 \/ file[6] # 0) => best # None
    /\ result = Err("No entries") => (DirectoryRead /\ entries = <<>>)

\* a single entry with bit depth 0 and byte length 0 is selected
C8_Witness ==
    /\ pc = "done"
    /\ Len(entries) = 1
    /\ entries[1].bitcount = 0 /\ entries[1].bytes_in_res = WZero
    /\ best = <<entries[1]>>
    /\ result # Err("No entries")

\* the decode stage ran on a blob that is not PNG and holds a whole header
LegacyBlob ==
    /\ pc = "done" /\ fs.out = "dir"
    /\ Len(blob) >= 40
    /\ SubSeq(blob, 1, 8) # <<137, 80, 78, 71, 13, 10, 26, 10>>

HeaderSizeBad == blob[1] < 40 /\ blob[2] = 0 /\ blob[3] = 0 /\ blob[4] = 0
HeightBad == blob[12] >= 128 \/ \A i \in 9..12 : blob[i] = 0
CompressionBad == \E i \in 17..20 : blob[i] # 0
DepthBad == blob[15] + 256 * blob[16] \notin {8, 32}

FirstHeaderError ==
    IF HeaderSizeBad THEN "Unsupported DIB header"
    ELSE IF HeightBad THEN "Invalid DIB height"
    ELSE IF CompressionBad THEN "Compressed DIB unsupported"
    ELSE IF DepthBad THEN "Unsupported DIB bpp"
    ELSE ""

HeaderErrors == {"Unsupported DIB header", "Invalid DIB height",
                 "Compressed DIB unsupported", "Unsupported DIB bpp"}

\* C9: for a non-PNG blob of at least 40 bytes the first failing check, in
\* the order header size < 40, combined height <= 0, compression # 0, bit
\* depth not 8 or 32, decides the error; the error is terminal: no file is
\* written and the blob is still that of the selected entry.
C9_HeaderChecksInOrder ==
    LegacyBlob =>
        IF FirstHeaderError # ""
        THEN /\ result = Err(FirstHeaderError)
             /\ fs.files = fs0.files
             /\ image = None /\ out_path = None
             /\ blob = Slice(file, WNat(best[1].image_offset), WNat(best[1].bytes_in_res))
        ELSE result.msg \notin HeaderErrors

\* height, compression and depth are all bad and the height decides
C9_Witness ==
    /\ LegacyBlob
    /\ ~HeaderSizeBad /\ HeightBad /\ CompressionBad /\ DepthBad
    /\ result = Err("Invalid DIB height")

\* fields of the legacy header of the decoded blob
RawHs == WNat(U32At(blob, 0))
RawW == WNat(U32At(blob, 4))
RawH == WNat(WDiv(U32At(blob, 8), 2))
RawBpp == blob[15] + 256 * blob[16]
RawColours == IF U32At(blob, 32) = WZero THEN 256 ELSE WNat(U32At(blob, 32))
RawStride == ((RawW * 8 + 31) \div 32) * 4
RawMaskStride == ((RawW + 31) \div 32) * 4
RawPixelOffset == RawHs + 4 * RawColours
RawMaskOffset == RawPixelOffset + RawStride * RawH

LegacyImage == image # None /\ SubSeq(blob, 1, 8) # <<137, 80, 78, 71, 13, 10, 26, 10>>
EmptyRaster == U32At(blob, 4) = WZero \/ WDiv(U32At(blob, 8), 2) = WZero

\* C6: on both legacy paths the stream row s lands in output row
\* height-1-s (the first stream row is the last output row); on the 32-bit
\* path the source bytes B,G,R,A at stride width*4 come out as R,G,B,A
\* unchanged, on the 8-bit path the colour is the palette entry of the
\* index byte at stride ceil(width*8/32)*4.
C6_RowsInverted ==
    LegacyImage =>
        IF EmptyRaster THEN image[1].px = <<>>
        ELSE /\ Len(image[1].px) = RawW * RawH
             /\ RawBpp = 32 =>
                  \A s \in 0..(RawH - 1), x \in 0..(RawW - 1) :
                     LET o == RawHs + (s * RawW + x) * 4
                     IN  image[1].px[(RawH - 1 - s) * RawW + x + 1]
                            = <<blob[o + 3], blob[o + 2], blob[o + 1], blob[o + 4]>>
             /\ RawBpp = 8 =>
                  \A s \in 0..(RawH - 1), x \in 0..(RawW - 1) :
                     LET idx == blob[RawPixelOffset + s * RawStride + x + 1]
                         c == IF idx < RawColours THEN idx ELSE RawColours - 1
                         q == RawHs + 4 * c
                         p == image[1].px[(RawH - 1 - s) * RawW + x + 1]
                     IN  <<p[1], p[2], p[3]>> = <<blob[q + 3], blob[q + 2], blob[q + 1]>>

\* a 2x2 32-bit raster whose first stream pixel is found in the last row
C6_Witness ==
    /\ LegacyImage /\ RawBpp = 32 /\ RawW = 2 /\ RawH = 2
    /\ image[1].px[3] = <<blob[RawHs + 3], blob[RawHs + 2], blob[RawHs + 1], blob[RawHs + 4]>>
    /\ image[1].px[3] # image[1].px[1]

MaskPresent == Len(blob) >= RawMaskOffset + RawMaskStride * RawH
MaskBit(x, y) ==
    (blob[RawMaskOffset + (RawH - 1 - y) * RawMaskStride + (x \div 8) + 1]
        \div (2 ^ (7 - (x % 8)))) % 2

\* C5: in the 8-bit decode the alpha of pixel (x, y) is 0 when a mask is
\* present and bit 7-(x mod 8) of the byte at mask row height-1-y, column
\* x div 8 (stride ceil(width/32)*4) is 1, and 255 otherwise; so a set bit
\* changes that pixel alone.
C5_MaskDecidesAlpha ==
    (LegacyImage /\ RawBpp = 8 /\ ~EmptyRaster) =>
        \A x \in 0..(RawW - 1), y \in 0..(RawH - 1) :
            image[1].px[y * RawW + x + 1][4]
                = IF MaskPresent /\ MaskBit(x, y) = 1 THEN 0 ELSE 255

\* mask byte 0 = 0b10000000 on a raster wider than one mask byte: pixel
\* (0, last row) is transparent, its neighbours stay opaque
C5_Witness ==
    /\ LegacyImage /\ RawBpp = 8 /\ RawW >= 9
    /\ MaskPresent /\ blob[RawMaskOffset + 1] = 128
    /\ image[1].px[(RawH - 1) * RawW + 1][4] = 0
    /\ \A x \in 1..(RawW - 1) : image[1].px[(RawH - 1) * RawW + x + 1][4] = 255

\* dimensions the selected blob records for itself
BlobIsPng == SubSeq(blob, 1, 8) = <<137, 80, 78, 71, 13, 10, 26, 10>>
BlobW == IF BlobIsPng THEN U32BEAt(blob, 16) ELSE U32At(blob, 4)
BlobH == IF BlobIsPng THEN U32BEAt(blob, 20) ELSE WDiv(U32At(blob, 8), 2)
DeclW == W(Dim256(best[1].width))
DeclH == W(Dim256(best[1].height))
Succeeded == pc = "done" /\ result = Ok

\* C2 as stated: a successful decode yields the selected entry's declared
\* dimensions (0 read as 256) as the buffer's size and in the file name.
C2_DeclaredDimensions ==
    Succeeded =>
        /\ image[1].w = DeclW /\ image[1].h = DeclH
        /\ out_path = <<FileName(DeclW, DeclH)>>

\* C2, amended: a successful decode yields the dimensions the selected blob
\* records (legacy header width and combined height div 2, or the PNG's own
\* dimensions) as the buffer's size and in the name of the file written;
\* they are the declared dimensions when the blob records those, so a 0/0
\* entry over a 256x256 blob gives 256x256.png.
C2_BlobDimensions ==
    Succeeded =>
        /\ image[1].w = BlobW /\ image[1].h = BlobH
        /\ out_path = <<FileName(BlobW, BlobH)>>
        /\ out_path[1] \in DOMAIN fs.files
        /\ fs.files[out_path[1]] = image[1]
        /\ (BlobW = W(256) /\ BlobH = W(256))
              => out_path[1] = <<"2", "5", "6", "x", "2", "5", "6", ".png">>
        /\ (image[1].w = DeclW /\ image[1].h = DeclH)
              <=> (BlobW = DeclW /\ BlobH = DeclH)

\* width byte 0 and height byte 0 over a 256x256 blob: 256x256.png
C2_Witness ==
    /\ Succeeded
    /\ best[1].width = 0 /\ best[1].height = 0
    /\ image[1].w = W(256) /\ image[1].h = W(256)
    /\ out_path = << <<"2", "5", "6", "x", "2", "5", "6", ".png">> >>

\* C3: no step replaces or removes a file already in the destination
\* (output naming never overwrites).
C3_NeverOverwrites ==
    [][\A n \in DOMAIN fs.files :
          n \in DOMAIN fs'.files /\ fs'.files[n] = fs.files[n]]_vars

OrdinaryHeader ==
    /\ LegacyBlob
    /\ ~HeaderSizeBad /\ ~HeightBad /\ ~CompressionBad /\ ~DepthBad
    /\ \A o \in {0, 4, 8, 32} : blob[o + 3] = 0 /\ blob[o + 4] = 0

RequiredLen ==
    IF RawBpp = 32 THEN RawHs + RawW * RawH * 4
    ELSE RawMaskOffset + RawMaskStride * RawH

TruncationErrors == {"Truncated 32bpp data", "Truncated palette", "Truncated pixel array"}

\* the blob ends inside one of its parts; an 8-bit blob that ends exactly
\* where the mask would begin carries no mask and is not counted
CutShort ==
    /\ Len(blob) < RequiredLen
    /\ RawBpp = 8 => Len(blob) # RawMaskOffset

\* C4: a legacy blob shorter than header + palette + pixel array + mask
\* (32-bit: header + width*height*4) fails with a truncation error,
\* whichever part is cut short: no image is decoded and no file written.
C4_TruncatedInputFails ==
    (OrdinaryHeader /\ CutShort) =>
        /\ image = None
        /\ result.status = "err" /\ result.msg \in TruncationErrors
        /\ fs.files = fs0.files

\* C10: no decode that passed the length checks reads a pixel, palette or
\* mask byte outside the slice it reads from.
C10_ReadsInRange == pc = "done" => result # Panic("index out of bounds")

====
